---- MODULE Spec2Model ----
(***************************************************************************)
(* The resting-order core of OrderBook/main.cpp: the MemoryPool arena, the *)
(* two price-ordered std::map side indexes (bids, asks), the order_lookup  *)
(* location index and the add / cancel / amend / snapshot operations.      *)
(*                                                                         *)
(* Representation                                                          *)
(*   Order*               the address the pool handed out for the record   *)
(*   list<Order*>         a sequence of such addresses, front first        *)
(*   OrderList::iterator  the address held by the list node it designates  *)
(*                        (a record is pushed into exactly one list, once) *)
(*   map<double, ...>     the sequence of its entries in iteration order,  *)
(*                        maintained by lower_bound under the comparator   *)
(*   unordered_map        a function on the set of its keys                *)
(*   double price         a finite tick value; NaN is outside the model    *)
(*   uint64_t quantity    an unsigned value of QtyBits bits                *)
(***************************************************************************)
EXTENDS Integers, Sequences, FiniteSets, TLC

\* ------------------------------------------------------------------ bounds
MaxId == 2
MaxPrice == 3
MaxQty == 1
MaxTs == 0
MaxAlloc == 3
MaxDepth == 3
MaxAllocSnapshot == 2
QtyBits == 1

\* ------------------------------------------------------- program constants
BlockSize == 8192
SizeofOrder == 40

Ids == 1..MaxId
Prices == 1..MaxPrice
Qtys == 0..MaxQty
Timestamps == 0..MaxTs
Depths == 0..MaxDepth
Modulus == 2 ^ QtyBits

VARIABLES
    bids,          \* map<double, PriceLevelData, greater<double>>
    asks,          \* map<double, PriceLevelData, less<double>>
    order_lookup,  \* unordered_map<uint64_t, OrderLocation>
    order_pool,    \* MemoryPool<Order, 8192>
    mem,           \* the Order records some list node still points to
    call,          \* the public call that ran last, with its arguments
    ret,           \* what that call returned
    bids_out,      \* the caller's vector<PriceLevel>& bids_out
    asks_out       \* the caller's vector<PriceLevel>& asks_out

book_vars == <<bids, asks, order_lookup, order_pool, mem>>
vars == <<bids, asks, order_lookup, order_pool, mem, call, ret, bids_out, asks_out>>

\* ----------------------------------------------------------------- helpers
Range(s) == {s[i] : i \in 1..Len(s)}

RemoveAt(s, i) == SubSeq(s, 1, i - 1) \o SubSeq(s, i + 1, Len(s))

InsertAt(s, i, e) == SubSeq(s, 1, i - 1) \o <<e>> \o SubSeq(s, i, Len(s))

Extend(f, k, v) == [x \in DOMAIN f \cup {k} |-> IF x = k THEN v ELSE f[x]]

Restrict(f, S) == [x \in S |-> f[x]]

Void == <<>>

Returned(v) == <<v>>

\* ------------------------------------------------------------------- Order
Order(id, buy, p, q, ts) ==
    [order_id |-> id, is_buy |-> buy, price |-> p, quantity |-> q, timestamp_ns |-> ts]

PriceLevel(p, q) == [price |-> p, total_quantity |-> q]

\* -------------------------------------------------------------- MemoryPool
NewPool == [all_blocks |-> 1, current_block |-> 0, offset |-> 0]

allocate_block(pool) ==
    [all_blocks |-> pool.all_blocks + 1,
     current_block |-> pool.all_blocks,
     offset |-> 0]

\* allocate without the test of line 69: the bump runs on in the current
\* block.
allocate_no_room_test(pool) ==
    [ptr |-> pool.current_block * BlockSize + pool.offset,
     pool |-> [pool EXCEPT !.offset = @ + SizeofOrder]]

\* The address of the record and the pool after the bump.
allocate(pool) ==
    LET p == IF pool.offset + SizeofOrder > BlockSize THEN allocate_block(pool) ELSE pool
    IN  [ptr |-> p.current_block * BlockSize + p.offset,
         pool |-> [p EXCEPT !.offset = @ + SizeofOrder]]

\* The test of line 69: the current block has no room for one more record,
\* so allocate calls allocate_block, whose new Block() may throw bad_alloc.
needs_block(pool) == pool.offset + SizeofOrder > BlockSize

RecordsPerBlock == BlockSize \div SizeofOrder

\* A pool that has handed out all records of its first block but
\* MaxAlloc - 1.
UsedRecords == RecordsPerBlock - (MaxAlloc - 1)

UsedPool ==
    [all_blocks |-> 1, current_block |-> 0, offset |-> UsedRecords * SizeofOrder]

\* Records handed out so far (the pool never gives one back).
Allocated(pool) ==
    pool.current_block * (BlockSize \div SizeofOrder) + pool.offset \div SizeofOrder

\* ---------------------------------------------------------- PriceLevelData
EmptyLevel == [orders |-> <<>>, total_quantity |-> 0]

\* add_order with push_front for the push_back of line 95.
level_add_order_front(level, order, m) ==
    [orders |-> <<order>> \o level.orders,
     total_quantity |-> (level.total_quantity + m[order].quantity) % Modulus]

\* add_order with an addition that stops at the largest value of the
\* aggregate's width instead of wrapping.
level_add_order_saturates(level, order, m) ==
    [orders |-> Append(level.orders, order),
     total_quantity |-> IF level.total_quantity + m[order].quantity >= Modulus
                        THEN Modulus - 1
                        ELSE level.total_quantity + m[order].quantity]

\* add_order assigning a list of the one order instead of the push_back of
\* line 95.
level_add_order_replaces(level, order, m) ==
    [orders |-> <<order>>,
     total_quantity |-> (level.total_quantity + m[order].quantity) % Modulus]

level_add_order(level, order, m) ==
    [orders |-> Append(level.orders, order),
     total_quantity |-> (level.total_quantity + m[order].quantity) % Modulus]

\* remove_order erasing the front of the list instead of the node at it.
level_remove_order_front(level, it, m) ==
    [orders |-> Tail(level.orders),
     total_quantity |-> (level.total_quantity - m[it].quantity) % Modulus]

\* remove_order without the subtraction of line 100.
level_remove_order_keeps_total(level, it, m) ==
    [orders |-> SelectSeq(level.orders, LAMBDA o : o # it),
     total_quantity |-> level.total_quantity]

\* remove_order erasing every node that carries the identity of the node at
\* it, instead of that node alone.
level_remove_order_by_id(level, it, m) ==
    [orders |-> SelectSeq(level.orders, LAMBDA o : m[o].order_id # m[it].order_id),
     total_quantity |-> (level.total_quantity - m[it].quantity) % Modulus]

\* remove_order moving the last node into the place of the erased one.
level_remove_order_swaps(level, it, m) ==
    LET n == Len(level.orders)
        i == CHOOSE k \in 1..n : level.orders[k] = it
    IN  [orders |-> [k \in 1..(n - 1) |-> IF k = i THEN level.orders[n] ELSE level.orders[k]],
         total_quantity |-> (level.total_quantity - m[it].quantity) % Modulus]

level_remove_order(level, it, m) ==
    [orders |-> SelectSeq(level.orders, LAMBDA o : o # it),
     total_quantity |-> (level.total_quantity - m[it].quantity) % Modulus]

\* update_quantity without the subtraction of old_qty of line 105.
update_quantity_adds(level, order, old_qty, m) ==
    [level EXCEPT !.total_quantity = (@ + m[order].quantity) % Modulus]

update_quantity(level, order, old_qty, m) ==
    [level EXCEPT !.total_quantity = (@ - old_qty + m[order].quantity) % Modulus]

\* ---------------------------------------------------------------- std::map
\* less<double> on both sides.
comp_less(greater, a, b) == a < b

\* greater<double> for the bids, less<double> for the asks.
comp(greater, a, b) == IF greater THEN a > b ELSE a < b

\* First position whose key does not go before k; Len + 1 is end().
lower_bound(map, greater, k) ==
    LET S == {i \in 1..Len(map) : ~comp(greater, map[i].key, k)}
    IN  IF S = {} THEN Len(map) + 1 ELSE CHOOSE i \in S : \A j \in S : i <= j

\* map::find: the position of key k, 0 for end().
find(map, greater, k) ==
    LET i == lower_bound(map, greater, k)
    IN  IF i <= Len(map) /\ ~comp(greater, k, map[i].key) THEN i ELSE 0

\* map::operator[]: the map with a default level inserted when k is absent.
subscript(map, greater, k) ==
    IF find(map, greater, k) # 0 THEN map
    ELSE InsertAt(map, lower_bound(map, greater, k), [key |-> k, val |-> EmptyLevel])

\* erase(begin()) for erase(side_it).
erase_begin(map, i) == Tail(map)

erase(map, i) == RemoveAt(map, i)

Keys(map) == {map[i].key : i \in 1..Len(map)}

\* --------------------------------------------------------------- OrderBook
\* The private members of one OrderBook, as the operations below take them.
Book ==
    [bids |-> bids, asks |-> asks, order_lookup |-> order_lookup,
     order_pool |-> order_pool, mem |-> mem]

\* The OrderLocation of lines 146 and 152 with is_buy left true.
OrderLocation_always_buy(p, it, buy) == [price |-> p, it |-> it, is_buy |-> TRUE]

OrderLocation(p, it, buy) == [price |-> p, it |-> it, is_buy |-> buy]

\* The branch of add_order for one side: map is bids or asks.
add_to_side(map, greater, new_order, order, m) ==
    LET created == subscript(map, greater, order.price)
        i == find(created, greater, order.price)
        price_level == level_add_order(created[i].val, new_order, m)
    IN  [map |-> [created EXCEPT ![i].val = price_level],
         it |-> price_level.orders[Len(price_level.orders)]]

add_order(b, order) ==
    LET a == allocate(b.order_pool)
        new_order == a.ptr
        m == Extend(b.mem, new_order, order)
    IN  IF order.is_buy
        THEN LET s == add_to_side(b.bids, TRUE, new_order, order, m)
             IN  [b EXCEPT !.order_pool = a.pool, !.mem = m, !.bids = s.map,
                           !.order_lookup = Extend(@, order.order_id,
                               OrderLocation(order.price, s.it, order.is_buy))]
        ELSE LET s == add_to_side(b.asks, FALSE, new_order, order, m)
             IN  [b EXCEPT !.order_pool = a.pool, !.mem = m, !.asks = s.map,
                           !.order_lookup = Extend(@, order.order_id,
                               OrderLocation(order.price, s.it, order.is_buy))]

\* add_order when new Block() throws inside allocate (line 136): the
\* exception leaves add_order before any member is assigned.
add_order_bad_alloc(b, order) == b

\* The removal without the erase of lines 172-174 and 182-184.
remove_from_side_keeps_level(map, side_it, it, m) ==
    [map EXCEPT ![side_it].val = level_remove_order(@, it, m)]

\* The branch of cancel_order for one side, once find has succeeded at side_it.
remove_from_side(map, side_it, it, m) ==
    LET price_level == level_remove_order(map[side_it].val, it, m)
    IN  IF price_level.orders = <<>>
        THEN erase(map, side_it)
        ELSE [map EXCEPT ![side_it].val = price_level]

\* cancel_order without the erase of line 188.
lookup_erase_keeps_entry(lookup, order_id) == lookup

\* clear() for the erase(order_id) of line 189.
lookup_erase_clears(lookup, order_id) == <<>>

lookup_erase(lookup, order_id) == Restrict(lookup, DOMAIN lookup \ {order_id})

\* cancel_order from line 163 on: order_id is a key of order_lookup.
cancel_found(b, order_id) ==
    LET loc == b.order_lookup[order_id]
    IN  IF loc.is_buy
        THEN LET side_it == find(b.bids, TRUE, loc.price)
             IN  IF side_it = 0
                 THEN [book |-> b, ret |-> FALSE]
                 ELSE [book |-> [b EXCEPT
                           !.bids = remove_from_side(@, side_it, loc.it, b.mem),
                           !.order_lookup = lookup_erase(@, order_id)],
                       ret |-> TRUE]
        ELSE LET side_it == find(b.asks, FALSE, loc.price)
             IN  IF side_it = 0
                 THEN [book |-> b, ret |-> FALSE]
                 ELSE [book |-> [b EXCEPT
                           !.asks = remove_from_side(@, side_it, loc.it, b.mem),
                           !.order_lookup = lookup_erase(@, order_id)],
                       ret |-> TRUE]

\* cancel_order answering true at line 160.
cancel_order_absent_succeeds(b, order_id) ==
    IF order_id \notin DOMAIN b.order_lookup
    THEN [book |-> b, ret |-> TRUE]
    ELSE cancel_found(b, order_id)

cancel_order(b, order_id) ==
    IF order_id \notin DOMAIN b.order_lookup
    THEN [book |-> b, ret |-> FALSE]
    ELSE cancel_found(b, order_id)

\* The quantity-only branch of amend_order for one side.
requantify_side(map, greater, price, order, old_qty, m) ==
    LET created == subscript(map, greater, price)
        i == find(created, greater, price)
    IN  [created EXCEPT ![i].val = update_quantity(@, order, old_qty, m)]

\* amend_order building the replacement order with a zero timestamp instead
\* of the one read at line 205.
amend_order_restamps(b, order_id, new_price, new_quantity) ==
    IF order_id \notin DOMAIN b.order_lookup
    THEN [book |-> b, ret |-> FALSE]
    ELSE LET loc == b.order_lookup[order_id]
             order == loc.it
         IN  IF b.mem[order].price # new_price
             THEN LET is_buy == b.mem[order].is_buy
                      timestamp == 0
                      c == cancel_order(b, order_id)
                  IN  [book |-> add_order(c.book,
                                    Order(order_id, is_buy, new_price, new_quantity, timestamp)),
                       ret |-> TRUE]
             ELSE LET old_qty == b.mem[order].quantity
                      m == [b.mem EXCEPT ![order].quantity = new_quantity]
                      b1 == IF loc.is_buy
                            THEN [b EXCEPT !.mem = m,
                                    !.bids = requantify_side(@, TRUE, loc.price, order, old_qty, m)]
                            ELSE [b EXCEPT !.mem = m,
                                    !.asks = requantify_side(@, FALSE, loc.price, order, old_qty, m)]
                  IN  IF new_quantity = 0
                      THEN cancel_order(b1, order_id)
                      ELSE [book |-> b1, ret |-> TRUE]

amend_order(b, order_id, new_price, new_quantity) ==
    IF order_id \notin DOMAIN b.order_lookup
    THEN [book |-> b, ret |-> FALSE]
    ELSE LET loc == b.order_lookup[order_id]
             order == loc.it
         IN  IF b.mem[order].price # new_price
             THEN LET is_buy == b.mem[order].is_buy
                      timestamp == b.mem[order].timestamp_ns
                      c == cancel_order(b, order_id)
                  IN  [book |-> add_order(c.book,
                                    Order(order_id, is_buy, new_price, new_quantity, timestamp)),
                       ret |-> TRUE]
             ELSE LET old_qty == b.mem[order].quantity
                      m == [b.mem EXCEPT ![order].quantity = new_quantity]
                      b1 == IF loc.is_buy
                            THEN [b EXCEPT !.mem = m,
                                    !.bids = requantify_side(@, TRUE, loc.price, order, old_qty, m)]
                            ELSE [b EXCEPT !.mem = m,
                                    !.asks = requantify_side(@, FALSE, loc.price, order, old_qty, m)]
                  IN  IF new_quantity = 0
                      THEN cancel_order(b1, order_id)
                      ELSE [book |-> b1, ret |-> TRUE]

\* amend_order when new Block() throws inside the add_order of line 208: the
\* cancel_order of line 207 has run and the exception leaves amend_order.
amend_order_bad_alloc(b, order_id, new_price, new_quantity) ==
    add_order_bad_alloc(cancel_order(b, order_id).book,
        Order(order_id, b.mem[b.order_lookup[order_id].it].is_buy, new_price, new_quantity,
              b.mem[b.order_lookup[order_id].it].timestamp_ns))

RECURSIVE snapshot_loop(_, _, _, _)
\* The loop with count > depth for the count >= depth of lines 243 and 251.
snapshot_loop_one_more(map, depth, i, out) ==
    IF i > Len(map) \/ i - 1 > depth
    THEN out
    ELSE snapshot_loop(map, depth, i + 1,
                       Append(out, PriceLevel(map[i].key, map[i].val.total_quantity)))

\* One of the two loops of get_snapshot, from map position i on.
snapshot_loop(map, depth, i, out) ==
    IF i > Len(map) \/ i - 1 >= depth
    THEN out
    ELSE snapshot_loop(map, depth, i + 1,
                       Append(out, PriceLevel(map[i].key, map[i].val.total_quantity)))

\* get_snapshot without the clear() of lines 235 and 236.
get_snapshot_no_clear(b, depth, old_bids_out, old_asks_out) ==
    [bids_out |-> old_bids_out \o snapshot_loop(b.bids, depth, 1, <<>>),
     asks_out |-> old_asks_out \o snapshot_loop(b.asks, depth, 1, <<>>)]

\* bids_out and asks_out are cleared first, whatever they held.
get_snapshot(b, depth, old_bids_out, old_asks_out) ==
    [bids_out |-> snapshot_loop(b.bids, depth, 1, <<>>),
     asks_out |-> snapshot_loop(b.asks, depth, 1, <<>>)]

get_total_orders(b) == Cardinality(DOMAIN b.order_lookup)

get_bid_levels(b) == Len(b.bids)

get_ask_levels(b) == Len(b.asks)

\* ------------------------------------------------------------------ system
\* The addresses some list node holds.
Resting(map) == UNION {Range(map[i].val.orders) : i \in 1..Len(map)}

\* The book is installed as the next state; records no list points to any
\* more are never read again and are left out of mem.
Install(b) ==
    /\ bids' = b.bids
    /\ asks' = b.asks
    /\ order_lookup' = b.order_lookup
    /\ order_pool' = b.order_pool
    /\ mem' = Restrict(b.mem, (Resting(b.bids) \cup Resting(b.asks)) \cap DOMAIN b.mem)

Init ==
    /\ bids = <<>>
    /\ asks = <<>>
    /\ order_lookup = <<>>
    /\ order_pool = NewPool
    /\ mem = <<>>
    /\ call = <<"new">>
    /\ ret = Void
    /\ bids_out = <<>>
    /\ asks_out = <<>>

\* add_order called with a timestamp out of stamps.
AddOrderStamped(cap, stamps) ==
    \E id \in Ids, buy \in BOOLEAN, p \in Prices, q \in Qtys, ts \in stamps :
        /\ Allocated(order_pool) < cap
        /\ \E b \in {add_order(Book, Order(id, buy, p, q, ts))} : Install(b)
        /\ call' = <<"add", id, buy, p, q, ts>>
        /\ ret' = Void
        /\ UNCHANGED <<bids_out, asks_out>>

AddOrder(cap) == AddOrderStamped(cap, Timestamps)

CancelOrder ==
    \E id \in Ids :
        \E r \in {cancel_order(Book, id)} :
            /\ Install(r.book)
            /\ call' = <<"cancel", id>>
            /\ ret' = Returned(r.ret)
            /\ UNCHANGED <<bids_out, asks_out>>

AmendOrder(cap) ==
    \E id \in Ids, p \in Prices, q \in Qtys :
        \E r \in {amend_order(Book, id, p, q)} :
            /\ Allocated(r.book.order_pool) <= cap
            /\ Install(r.book)
            /\ call' = <<"amend", id, p, q>>
            /\ ret' = Returned(r.ret)
            /\ UNCHANGED <<bids_out, asks_out>>

GetSnapshot ==
    \E depth \in Depths :
        \E s \in {get_snapshot(Book, depth, bids_out, asks_out)} :
            /\ bids_out' = s.bids_out
            /\ asks_out' = s.asks_out
            /\ call' = <<"snapshot", depth>>
            /\ ret' = Void
            /\ UNCHANGED book_vars

Next == AddOrder(MaxAlloc) \/ CancelOrder \/ AmendOrder(MaxAlloc)

Spec == Init /\ [][Next]_vars

\* The same book with a caller that also takes snapshots, into two vectors
\* it keeps between the calls.
NextSnapshot ==
    AddOrder(MaxAllocSnapshot) \/ CancelOrder \/ AmendOrder(MaxAllocSnapshot) \/ GetSnapshot

SpecSnapshot == Init /\ [][NextSnapshot]_vars

\* The book after enough adds and cancels to leave it empty with
\* MaxAlloc - 1 free records in the first block of the pool: the allocation
\* after those needs a new block, and new Block() either succeeds or throws
\* bad_alloc.
InitUsed ==
    /\ bids = <<>>
    /\ asks = <<>>
    /\ order_lookup = <<>>
    /\ order_pool = UsedPool
    /\ mem = <<>>
    /\ call = <<"new">>
    /\ ret = Void
    /\ bids_out = <<>>
    /\ asks_out = <<>>

AddOrderBadAlloc ==
    \E id \in Ids, buy \in BOOLEAN, p \in Prices, q \in Qtys, ts \in Timestamps :
        /\ needs_block(order_pool)
        /\ \E b \in {add_order_bad_alloc(Book, Order(id, buy, p, q, ts))} : Install(b)
        /\ call' = <<"bad_alloc", "add", id, buy, p, q, ts>>
        /\ ret' = Void
        /\ UNCHANGED <<bids_out, asks_out>>

AmendOrderBadAlloc ==
    \E id \in DOMAIN order_lookup, p \in Prices, q \in Qtys :
        /\ mem[order_lookup[id].it].price # p
        /\ needs_block(order_pool)
        /\ \E b \in {amend_order_bad_alloc(Book, id, p, q)} : Install(b)
        /\ call' = <<"bad_alloc", "amend", id, p, q>>
        /\ ret' = Void
        /\ UNCHANGED <<bids_out, asks_out>>

NextExhaust ==
    \/ AddOrder(UsedRecords + MaxAlloc)
    \/ CancelOrder
    \/ AmendOrder(UsedRecords + MaxAlloc)
    \/ AddOrderBadAlloc
    \/ AmendOrderBadAlloc

SpecExhaust == InitUsed /\ [][NextExhaust]_vars

\* The same book with a caller that stamps every add with its clock, which
\* ticks once per record the pool hands out.
Clock == Allocated(order_pool) + 1

NextStamped ==
    AddOrderStamped(MaxAlloc, {Clock}) \/ CancelOrder \/ AmendOrder(MaxAlloc)

SpecStamped == Init /\ [][NextStamped]_vars

\* ------------------------------------------------- vocabulary of the claims
SideIndex(buy) == IF buy THEN bids ELSE asks

\* The sequence and the aggregate of the level at price p; a price that is
\* no key has the empty sequence.
SideIndexNext(buy) == IF buy THEN bids' ELSE asks'

Without(orders, a) == SelectSeq(orders, LAMBDA o : o # a)

LevelOrders(map, p) ==
    IF \E i \in 1..Len(map) : map[i].key = p
    THEN map[CHOOSE i \in 1..Len(map) : map[i].key = p].val.orders
    ELSE <<>>

LevelTotal(map, p) ==
    IF \E i \in 1..Len(map) : map[i].key = p
    THEN map[CHOOSE i \in 1..Len(map) : map[i].key = p].val.total_quantity
    ELSE 0

RECURSIVE SumQuantities(_, _)
SumQuantities(orders, m) ==
    IF orders = <<>> THEN 0
    ELSE m[Head(orders)].quantity + SumQuantities(Tail(orders), m)

\* ---------------------------------------------------------------------- C1
AggregateIsSum(map) ==
    \A i \in 1..Len(map) :
        SumQuantities(map[i].val.orders, mem) < Modulus
            => map[i].val.total_quantity = SumQuantities(map[i].val.orders, mem)

\* C1: in every reachable state, on both sides, the aggregate quantity of
\* every level equals the sum of the quantities of the orders in its
\* sequence, whenever that sum fits the width of the aggregate.
C1_AggregateIsSum == AggregateIsSum(bids) /\ AggregateIsSum(asks)

\* A successful cancel has left a bid level of several orders whose sum is
\* positive and fits.
C1_Witness ==
    /\ call[1] = "cancel"
    /\ ret = Returned(TRUE)
    /\ \E i \in 1..Len(bids) :
           /\ Len(bids[i].val.orders) >= 2
           /\ SumQuantities(bids[i].val.orders, mem) \in 1..(Modulus - 1)

\* ---------------------------------------------------------------------- C2
KeyIffNonEmpty(map) ==
    \A p \in Prices : p \in Keys(map) <=> LevelOrders(map, p) # <<>>

\* C2: in every reachable state a price is a key of a side index if and
\* only if the sequence of the level at that price is not empty.
C2_KeyIffNonEmpty == KeyIffNonEmpty(bids) /\ KeyIffNonEmpty(asks)

\* The only order ever allocated was amended to quantity zero at its own
\* price (a price change would have allocated a second record): the level
\* the creating lookup found is gone with it.
C2_Witness ==
    /\ call[1] = "amend"
    /\ call[4] = 0
    /\ ret = Returned(TRUE)
    /\ Allocated(order_pool) = 1
    /\ bids = <<>>
    /\ asks = <<>>

\* ---------------------------------------------------------------------- C3
\* The Order* some list of either side holds.
RestingOrders == Resting(bids) \cup Resting(asks)

\* An identity is a key of order_lookup exactly when an order carrying it is
\* in some list, and every order in a list is the one its identity's entry
\* designates.
LocationTracksResting ==
    /\ \A id \in Ids :
           id \in DOMAIN order_lookup <=> \E a \in RestingOrders : mem[a].order_id = id
    /\ \A a \in RestingOrders :
           /\ mem[a].order_id \in DOMAIN order_lookup
           /\ order_lookup[mem[a].order_id].it = a

\* Every entry designates an order of its identity that is in the list of
\* the level at the recorded price on the recorded side.
EntryDesignatesResting ==
    \A id \in DOMAIN order_lookup :
        LET loc == order_lookup[id]
        IN  /\ loc.it \in Range(LevelOrders(SideIndex(loc.is_buy), loc.price))
            /\ mem[loc.it].order_id = id

AddOfRestingIdentity == call'[1] = "add" /\ call'[2] \in DOMAIN order_lookup

\* C3 as claimed: the correspondence holds in every state reachable by any
\* sequence of add, cancel and amend calls.
C3_Original == LocationTracksResting

\* C3 as amended: the correspondence holds of the new book, every entry
\* designates a resting order of its identity in every reachable state, and
\* every call other than an add of an identity that is already resting
\* keeps the correspondence.
C3_LocationTracksResting ==
    /\ LocationTracksResting
    /\ []EntryDesignatesResting
    /\ [][(LocationTracksResting /\ ~AddOfRestingIdentity) => LocationTracksResting']_vars

\* Two identities rest, the later one moved by a price-changing amend (the
\* third allocation), and the correspondence holds.
C3_Witness ==
    /\ call[1] = "amend"
    /\ ret = Returned(TRUE)
    /\ Allocated(order_pool) = 3
    /\ DOMAIN order_lookup = Ids
    /\ Cardinality(RestingOrders) = MaxId
    /\ order_lookup[call[2]].it = 2 * SizeofOrder
    /\ LocationTracksResting

\* ---------------------------------------------------------------------- C4
\* C4: a cancel or an amend of an identity that is no key of order_lookup
\* returns false and changes neither side index (keys, lists, aggregates,
\* the quantities of the orders), nor order_lookup, nor the three counts.
C4_AbsentIdentityIsNoOp ==
    [][(call'[1] \in {"cancel", "amend"} /\ call'[2] \notin DOMAIN order_lookup)
        => /\ ret' = Returned(FALSE)
           /\ bids' = bids
           /\ asks' = asks
           /\ mem' = mem
           /\ order_lookup' = order_lookup
           /\ Cardinality(DOMAIN order_lookup') = Cardinality(DOMAIN order_lookup)
           /\ Len(bids') = Len(bids)
           /\ Len(asks') = Len(asks)]_vars

\* An amend was refused for an identity that has no entry although an
\* order carrying it is still in a list.
C4_Witness ==
    /\ call[1] = "amend"
    /\ ret = Returned(FALSE)
    /\ order_lookup # <<>>
    /\ \E a \in RestingOrders : mem[a].order_id = call[2]

\* ---------------------------------------------------------------------- C5
\* C5: an add of an identity that is not resting raises totalOrders by one,
\* puts a new record with the given fields at the tail of the level at its
\* price on its side, adds its quantity to that level's aggregate (in the
\* aggregate's width) and raises that side's level count by one exactly
\* when the price was no key of that side.
C5_AddAppends ==
    [][(call'[1] = "add" /\ call'[2] \notin DOMAIN order_lookup)
        => LET before == LevelOrders(SideIndex(call'[3]), call'[4])
               after == LevelOrders(SideIndexNext(call'[3]), call'[4])
           IN  /\ Cardinality(DOMAIN order_lookup') = Cardinality(DOMAIN order_lookup) + 1
               /\ Len(after) = Len(before) + 1
               /\ SubSeq(after, 1, Len(before)) = before
               /\ after[Len(after)] \notin RestingOrders
               /\ mem'[after[Len(after)]]
                      = Order(call'[2], call'[3], call'[4], call'[5], call'[6])
               /\ LevelTotal(SideIndexNext(call'[3]), call'[4])
                      = (LevelTotal(SideIndex(call'[3]), call'[4]) + call'[5]) % Modulus
               /\ Len(SideIndexNext(call'[3]))
                      = Len(SideIndex(call'[3]))
                        + (IF call'[4] \in Keys(SideIndex(call'[3])) THEN 0 ELSE 1)]_vars

\* The add just made joined a level that held an order of another identity
\* (no order is orphaned, so the added identity was not resting).
C5_Witness ==
    /\ call[1] = "add"
    /\ call[5] > 0
    /\ Len(LevelOrders(SideIndex(call[3]), call[4])) >= 2
    /\ LocationTracksResting

\* ---------------------------------------------------------------------- C6
\* C6: a cancel of an identity that is a key of order_lookup returns true,
\* takes exactly the designated order out of its level's list and nothing
\* out of any other list, lowers that level's aggregate by that order's
\* quantity (in the aggregate's width), erases the entry and no other, and
\* lowers totalOrders by one.
C6_CancelRemoves ==
    [][(call'[1] = "cancel" /\ call'[2] \in DOMAIN order_lookup)
        => LET loc == order_lookup[call'[2]]
           IN  /\ ret' = Returned(TRUE)
               /\ loc.it \in Range(LevelOrders(SideIndex(loc.is_buy), loc.price))
               /\ \A buy \in BOOLEAN, p \in Prices :
                      LevelOrders(SideIndexNext(buy), p)
                          = IF buy = loc.is_buy /\ p = loc.price
                            THEN Without(LevelOrders(SideIndex(buy), p), loc.it)
                            ELSE LevelOrders(SideIndex(buy), p)
               /\ Len(LevelOrders(SideIndexNext(loc.is_buy), loc.price))
                      = Len(LevelOrders(SideIndex(loc.is_buy), loc.price)) - 1
               /\ LevelTotal(SideIndexNext(loc.is_buy), loc.price)
                      = (LevelTotal(SideIndex(loc.is_buy), loc.price)
                         - mem[loc.it].quantity) % Modulus
               /\ DOMAIN order_lookup' = DOMAIN order_lookup \ {call'[2]}
               /\ \A id \in DOMAIN order_lookup' : order_lookup'[id] = order_lookup[id]
               /\ Cardinality(DOMAIN order_lookup') = Cardinality(DOMAIN order_lookup) - 1]_vars

\* A successful cancel took an order out of a level in which two orders
\* stay behind.
C6_Witness ==
    /\ call[1] = "cancel"
    /\ ret = Returned(TRUE)
    /\ \E buy \in BOOLEAN, p \in Prices :
           /\ Len(LevelOrders(SideIndex(buy), p)) = 2
           /\ LevelTotal(SideIndex(buy), p) > 0
    /\ Cardinality(DOMAIN order_lookup) = 1

\* ---------------------------------------------------------------------- C7
\* What a snapshot of the next state returns.
SnapshotNext(depth) ==
    get_snapshot([bids |-> bids', asks |-> asks'], depth, bids_out, asks_out)

OutPrices(out) == {out[i].price : i \in 1..Len(out)}

\* C7: a cancel, a zero-quantity amend or a price-changing amend of a
\* resting identity whose order is the only one of its level takes the
\* level's price out of the side index (of the book the cancel half leaves,
\* and of the final book) and out of every snapshot, and lowers that side's
\* level count by one (the add half of a price-changing amend then raises
\* it again when it opens a level); when other orders stay in the level, the
\* price stays a key and the removal does not change the count.
C7_LastOrderRemovesLevel ==
    [][(call'[1] \in {"cancel", "amend"} /\ call'[2] \in DOMAIN order_lookup)
        => LET loc == order_lookup[call'[2]]
               side == SideIndex(loc.is_buy)
               moves == call'[1] = "amend" /\ call'[3] # loc.price
               removes == call'[1] = "cancel" \/ moves \/ call'[4] = 0
               only == Len(LevelOrders(side, loc.price)) = 1
               opened == IF moves /\ call'[3] \notin Keys(side) THEN 1 ELSE 0
               mid == cancel_order(Book, call'[2]).book
               midside == IF loc.is_buy THEN mid.bids ELSE mid.asks
           IN  removes =>
               /\ only =>
                     /\ loc.price \notin Keys(SideIndexNext(loc.is_buy))
                     /\ \A d \in Depths :
                            loc.price \notin OutPrices(IF loc.is_buy
                                                       THEN SnapshotNext(d).bids_out
                                                       ELSE SnapshotNext(d).asks_out)
                     /\ Len(SideIndexNext(loc.is_buy)) = Len(side) - 1 + opened
                     /\ moves => /\ Len(midside) = Len(side) - 1
                                 /\ loc.price \notin Keys(midside)
               /\ ~only =>
                     /\ loc.price \in Keys(SideIndexNext(loc.is_buy))
                     /\ Len(SideIndexNext(loc.is_buy)) = Len(side) + opened
                     /\ moves => /\ Len(midside) = Len(side)
                                 /\ loc.price \in Keys(midside)
               /\ Len(SideIndexNext(~loc.is_buy)) = Len(SideIndex(~loc.is_buy))]_vars

\* The only order ever allocated was cancelled and its level went with it.
C7_Witness ==
    /\ call[1] = "cancel"
    /\ ret = Returned(TRUE)
    /\ Allocated(order_pool) = 1
    /\ bids = <<>>
    /\ asks = <<>>

\* ---------------------------------------------------------------------- C8
StrictlyDescending(out) == \A i \in 1..(Len(out) - 1) : out[i].price > out[i + 1].price

StrictlyAscending(out) == \A i \in 1..(Len(out) - 1) : out[i].price < out[i + 1].price

\* C8: in every reachable state and for every depth the bid entries of a
\* snapshot have strictly descending prices and the ask entries strictly
\* ascending prices, so no price is repeated on a side.
C8_SnapshotOrdered ==
    \A d \in Depths :
        LET s == get_snapshot(Book, d, bids_out, asks_out)
        IN  /\ StrictlyDescending(s.bids_out)
            /\ StrictlyAscending(s.asks_out)
            /\ Cardinality(OutPrices(s.bids_out)) = Len(s.bids_out)
            /\ Cardinality(OutPrices(s.asks_out)) = Len(s.asks_out)

\* Three bid levels whose prices arrived in the order 2, 1, 3.
C8_Witness ==
    /\ Len(bids) = 3
    /\ LevelOrders(bids, 2) = <<0>>
    /\ LevelOrders(bids, 1) = <<SizeofOrder>>
    /\ LevelOrders(bids, 3) = <<2 * SizeofOrder>>

\* ---------------------------------------------------------------------- C9
Min(a, b) == IF a < b THEN a ELSE b

\* out holds distinct keys of map, each with its level's aggregate, and every
\* key it leaves out is worse than every key it holds.
BestLevels(out, map, buy) ==
    /\ Cardinality(OutPrices(out)) = Len(out)
    /\ \A i \in 1..Len(out) :
           /\ out[i].price \in Keys(map)
           /\ out[i].total_quantity = LevelTotal(map, out[i].price)
           /\ \A k \in Keys(map) \ OutPrices(out) :
                  IF buy THEN out[i].price > k ELSE out[i].price < k

\* C9: in every reachable state and for every depth a snapshot holds on
\* each side min(depth, number of levels of the side) entries, which are the
\* best-priced levels of the side, each with the level's aggregate.
C9_SnapshotTopOfBook ==
    \A d \in Depths :
        LET s == get_snapshot(Book, d, bids_out, asks_out)
        IN  /\ Len(s.bids_out) = Min(d, get_bid_levels(Book))
            /\ Len(s.asks_out) = Min(d, get_ask_levels(Book))
            /\ BestLevels(s.bids_out, bids, TRUE)
            /\ BestLevels(s.asks_out, asks, FALSE)
            /\ get_bid_levels(Book) = Cardinality(Keys(bids))
            /\ get_ask_levels(Book) = Cardinality(Keys(asks))

\* More ask levels than the smaller depths ask for, one of them with a
\* positive aggregate, and a bid level beside them.
C9_Witness ==
    /\ Len(asks) = 2
    /\ Len(bids) = 1
    /\ asks[1].val.total_quantity > 0
    /\ MaxDepth >= 2

\* --------------------------------------------------------------------- C10
\* The first min(depth, size) entries of a side index as price levels.
FirstLevels(map, depth) ==
    [i \in 1..Min(depth, Len(map)) |-> PriceLevel(map[i].key, map[i].val.total_quantity)]

\* C10: a snapshot call changes nothing of the book (side indexes, orders,
\* location index, pool, the three counts); what it returns is determined
\* by the book and the depth alone, whatever the output sequences held; and
\* a second call of the same depth right after the first returns the same.
C10_SnapshotPure ==
    [][call'[1] = "snapshot"
        => /\ bids' = bids
           /\ asks' = asks
           /\ mem' = mem
           /\ order_lookup' = order_lookup
           /\ order_pool' = order_pool
           /\ Cardinality(DOMAIN order_lookup') = Cardinality(DOMAIN order_lookup)
           /\ Len(bids') = Len(bids)
           /\ Len(asks') = Len(asks)
           /\ bids_out' = FirstLevels(bids, call'[2])
           /\ asks_out' = FirstLevels(asks, call'[2])
           /\ call = call' => (bids_out' = bids_out /\ asks_out' = asks_out)]_vars

\* A snapshot of depth 1 was taken of a book with two bid levels and an
\* ask level.
C10_Witness ==
    /\ call = <<"snapshot", 1>>
    /\ Len(bids) = 2
    /\ Len(bids_out) = 1
    /\ asks_out = <<>>

\* --------------------------------------------------------------------- C11
\* C11: an amend of a resting identity at its order's own price with a
\* positive quantity returns true, sets that order's quantity, turns the
\* level's aggregate A into A - oldQty + q (in the aggregate's width) and
\* changes neither a list of either side, nor any other order, nor the keys
\* of either side, nor the location index, nor the three counts.
C11_AmendQuantityInPlace ==
    [][(/\ call'[1] = "amend"
        /\ call'[2] \in DOMAIN order_lookup
        /\ mem[order_lookup[call'[2]].it].price = call'[3]
        /\ call'[4] > 0)
        => LET loc == order_lookup[call'[2]]
           IN  /\ ret' = Returned(TRUE)
               /\ mem' = [mem EXCEPT ![loc.it].quantity = call'[4]]
               /\ LevelTotal(SideIndexNext(loc.is_buy), loc.price)
                      = (LevelTotal(SideIndex(loc.is_buy), loc.price)
                         - mem[loc.it].quantity + call'[4]) % Modulus
               /\ \A buy \in BOOLEAN, p \in Prices :
                      /\ LevelOrders(SideIndexNext(buy), p) = LevelOrders(SideIndex(buy), p)
                      /\ (buy # loc.is_buy \/ p # loc.price)
                            => LevelTotal(SideIndexNext(buy), p) = LevelTotal(SideIndex(buy), p)
               /\ Keys(bids') = Keys(bids)
               /\ Keys(asks') = Keys(asks)
               /\ Len(bids') = Len(bids)
               /\ Len(asks') = Len(asks)
               /\ order_lookup' = order_lookup
               /\ Cardinality(DOMAIN order_lookup') = Cardinality(DOMAIN order_lookup)
               /\ order_pool' = order_pool]_vars

\* The order of the first allocation (so never moved by a price change) was
\* amended to a positive quantity and is still ahead of a later order of
\* its level.
C11_Witness ==
    /\ call[1] = "amend"
    /\ ret = Returned(TRUE)
    /\ call[4] > 0
    /\ call[2] \in DOMAIN order_lookup
    /\ order_lookup[call[2]].it = 0
    /\ mem[0].quantity = call[4]
    /\ Len(LevelOrders(SideIndex(mem[0].is_buy), mem[0].price)) = 2
    /\ LevelOrders(SideIndex(mem[0].is_buy), mem[0].price)[1] = 0

\* --------------------------------------------------------------------- C12
\* C12: an amend of a resting identity to another price returns true and
\* leaves the book as a cancel followed by an add would: the designated
\* order is gone from its old list (whose level is deleted if it emptied),
\* a fresh record with the same identity, side and timestamp and the new
\* quantity is the last of the list at the new price on the same side, the
\* aggregates follow, nothing else moves and totalOrders is unchanged.
C12_AmendPriceIsCancelThenAdd ==
    [][(/\ call'[1] = "amend"
        /\ call'[2] \in DOMAIN order_lookup
        /\ mem[order_lookup[call'[2]].it].price # call'[3])
        => LET id == call'[2]
               loc == order_lookup[id]
               old == mem[loc.it]
               side == loc.is_buy
               new == order_lookup'[id].it
               left == Without(LevelOrders(SideIndex(side), loc.price), loc.it)
           IN  /\ ret' = Returned(TRUE)
               /\ new \notin RestingOrders
               /\ mem'[new] = Order(id, old.is_buy, call'[3], call'[4], old.timestamp_ns)
               /\ old.is_buy = side
               /\ LevelOrders(SideIndexNext(side), loc.price) = left
               /\ loc.price \in Keys(SideIndexNext(side)) <=> left # <<>>
               /\ LevelTotal(SideIndexNext(side), loc.price)
                      = IF left = <<>> THEN 0
                        ELSE (LevelTotal(SideIndex(side), loc.price) - old.quantity) % Modulus
               /\ LevelOrders(SideIndexNext(side), call'[3])
                      = Append(LevelOrders(SideIndex(side), call'[3]), new)
               /\ LevelTotal(SideIndexNext(side), call'[3])
                      = (LevelTotal(SideIndex(side), call'[3]) + call'[4]) % Modulus
               /\ \A buy \in BOOLEAN, p \in Prices :
                      (buy # side \/ p \notin {loc.price, call'[3]})
                          => /\ LevelOrders(SideIndexNext(buy), p) = LevelOrders(SideIndex(buy), p)
                             /\ LevelTotal(SideIndexNext(buy), p) = LevelTotal(SideIndex(buy), p)
               /\ \A a \in RestingOrders \ {loc.it} : mem'[a] = mem[a]
               /\ order_lookup' = [order_lookup EXCEPT ![id] = OrderLocation(call'[3], new, side)]
               /\ Cardinality(DOMAIN order_lookup') = Cardinality(DOMAIN order_lookup)]_vars

\* A price-changing amend put its order behind another one: the record it
\* left carries a stamp older than the clock read when it was allocated.
C12_Witness ==
    /\ call[1] = "amend"
    /\ ret = Returned(TRUE)
    /\ call[2] \in DOMAIN order_lookup
    /\ LET a == order_lookup[call[2]].it
           orders == LevelOrders(SideIndex(mem[a].is_buy), call[3])
       IN  /\ mem[a].timestamp_ns < (a \div SizeofOrder) + 1
           /\ mem[a].price = call[3]
           /\ mem[a].quantity = call[4]
           /\ Len(orders) = 2
           /\ orders[2] = a
           /\ mem[orders[1]].order_id # call[2]

\* --------------------------------------------------------------------- C13
\* The place of a record in a list.
Position(orders, a) == CHOOSE i \in 1..Len(orders) : orders[i] = a

\* C13: whatever the call, two records that are in one level's list before
\* and after it keep their relative order, and a record that enters a list
\* (a new order, or the replacement a price-changing amend allocates) stands
\* behind every record that was already there, whatever its timestamp.
C13_TimePriorityKept ==
    [][\A buy \in BOOLEAN, p \in Prices :
          LET before == LevelOrders(SideIndex(buy), p)
              after == LevelOrders(SideIndexNext(buy), p)
              stay == Range(before) \cap Range(after)
          IN  /\ \A x, y \in stay :
                     Position(before, x) < Position(before, y)
                         => Position(after, x) < Position(after, y)
              /\ \A a \in Range(after) \ Range(before) :
                     \A x \in stay : Position(after, x) < Position(after, a)]_vars

\* A price-changing amend has put an order behind one with a later stamp.
C13_Witness ==
    /\ call[1] = "amend"
    /\ ret = Returned(TRUE)
    /\ call[2] \in DOMAIN order_lookup
    /\ \E buy \in BOOLEAN, p \in Prices :
           LET orders == LevelOrders(SideIndex(buy), p)
           IN  /\ Len(orders) >= 2
               /\ orders[Len(orders)] = order_lookup[call[2]].it
               /\ mem[orders[1]].timestamp_ns > mem[orders[Len(orders)]].timestamp_ns
               /\ mem[orders[1]].order_id # call[2]

\* --------------------------------------------------------------------- C14
\* C14, as claimed: an amend with new quantity zero that returns true, at any
\* price, leaves the identity without an entry in order_lookup and without a
\* resting order of quantity zero, and get_total_orders one less.
C14_Original ==
    [][(/\ call'[1] = "amend"
        /\ call'[4] = 0
        /\ ret' = Returned(TRUE))
        => /\ call'[2] \notin DOMAIN order_lookup'
           /\ \A a \in RestingOrders' :
                  ~(mem'[a].order_id = call'[2] /\ mem'[a].quantity = 0)
           /\ Cardinality(DOMAIN order_lookup')
                  = Cardinality(DOMAIN order_lookup) - 1]_vars

\* --------------------------------------------------------------------- C15
\* The identities that have an order in some list.
IdentitiesResting == {mem[a].order_id : a \in RestingOrders}

\* What a call adds to (adds) - (cancels that returned true) - (amends to
\* quantity zero that returned true) - (adds of an identity already resting).
CountedChange ==
    CASE call'[1] = "add" -> IF call'[2] \in IdentitiesResting THEN 0 ELSE 1
      [] call'[1] = "cancel" -> IF ret' = Returned(TRUE) THEN 0 - 1 ELSE 0
      [] call'[1] = "amend" -> IF ret' = Returned(TRUE) /\ call'[4] = 0 THEN 0 - 1 ELSE 0
      [] OTHER -> 0

\* C15, as claimed: get_total_orders is the number of identities resting,
\* and it is (adds) - (successful cancels) - (successful amends to quantity
\* zero) - (adds of a resting identity): both are zero in the new book, so
\* the second holds exactly when every call changes the two alike.
C15_Original ==
    /\ [](Cardinality(DOMAIN order_lookup) = Cardinality(IdentitiesResting))
    /\ [][Cardinality(DOMAIN order_lookup') - Cardinality(DOMAIN order_lookup)
             = CountedChange]_vars

\* --------------------------------------------------------------------- C16
\* The orders in a list that no entry of order_lookup designates.
Orphans == RestingOrders \ {order_lookup[id].it : id \in DOMAIN order_lookup}

\* C16: an add of an identity that has an entry overwrites the entry with
\* the place of the new order and leaves the size of order_lookup alone,
\* while the order the entry designated stays in its list, unchanged, with
\* its quantity in the aggregate; and no call whatever takes an order that
\* no entry designates out of its list, changes it or deletes its level.
C16_DuplicateAddOrphans ==
    [][/\ (call'[1] = "add" /\ call'[2] \in DOMAIN order_lookup)
           => LET id == call'[2]
                  loc == order_lookup[id]
                  new == order_lookup'[id].it
                  same == call'[3] = loc.is_buy /\ call'[4] = loc.price
              IN  /\ new \notin RestingOrders
                  /\ order_lookup' = [order_lookup EXCEPT
                                         ![id] = OrderLocation(call'[4], new, call'[3])]
                  /\ mem'[new] = Order(id, call'[3], call'[4], call'[5], call'[6])
                  /\ Cardinality(DOMAIN order_lookup') = Cardinality(DOMAIN order_lookup)
                  /\ loc.it \in Orphans'
                  /\ LevelOrders(SideIndexNext(loc.is_buy), loc.price)
                         = IF same
                           THEN Append(LevelOrders(SideIndex(loc.is_buy), loc.price), new)
                           ELSE LevelOrders(SideIndex(loc.is_buy), loc.price)
                  /\ LevelTotal(SideIndexNext(loc.is_buy), loc.price)
                         = (LevelTotal(SideIndex(loc.is_buy), loc.price)
                            + IF same THEN call'[5] ELSE 0) % Modulus
       /\ \A a \in Orphans :
              /\ a \in Orphans'
              /\ mem'[a] = mem[a]
              /\ a \in Range(LevelOrders(SideIndexNext(mem[a].is_buy), mem[a].price))]_vars

\* A cancel of an identity returned true and an order of that identity still
\* rests, designated by no entry.
C16_Witness ==
    /\ call[1] = "cancel"
    /\ ret = Returned(TRUE)
    /\ call[2] \notin DOMAIN order_lookup
    /\ \E a \in Orphans : mem[a].order_id = call[2]

\* --------------------------------------------------------------------- C17
\* C17, as claimed: when the pool fails to allocate a record during add_order
\* or during the add_order inside a price-changing amend_order, bids, asks
\* and order_lookup are what they were when that call began.
C17_Original ==
    [][call'[1] = "bad_alloc"
        => /\ bids' = bids
           /\ asks' = asks
           /\ order_lookup' = order_lookup]_vars

\* --------------------------------------------------------------------- C18
\* C18: in every reachable book, for every identity that has an entry in
\* order_lookup, the level the entry names is in its side (so the "level
\* missing" return of cancel_order is not taken), cancel_order returns
\* true, and amend_order returns true for every price and quantity, zero at
\* the order's own price included.
C18_IndexedCallsSucceed ==
    \A id \in DOMAIN order_lookup :
        LET loc == order_lookup[id]
        IN  /\ find(SideIndex(loc.is_buy), loc.is_buy, loc.price) # 0
            /\ cancel_order(Book, id).ret = TRUE
            /\ \A p \in Prices, q \in Qtys : amend_order(Book, id, p, q).ret = TRUE

\* An amend to quantity zero took the cancelling branch and returned true,
\* and another identity still has an entry.
C18_Witness ==
    /\ call[1] = "amend"
    /\ call[4] = 0
    /\ ret = Returned(TRUE)
    /\ call[2] \notin DOMAIN order_lookup
    /\ order_lookup # <<>>

\* --------------------------------------------------------------------- C19
\* C19: add_order only inserts. Whatever the prices on the other side, every
\* order that was resting keeps its record (price, quantity) and its place:
\* each list is as before, but for the new order at the end of the list of
\* its own price and side, each aggregate as before but for the new order's
\* quantity, and the entries of the other identities are untouched.
C19_AddOnlyInserts ==
    [][call'[1] = "add"
        => LET new == order_lookup'[call'[2]].it
           IN  /\ new \notin RestingOrders
               /\ \A buy \in BOOLEAN, p \in Prices :
                      IF buy = call'[3] /\ p = call'[4]
                      THEN /\ LevelOrders(SideIndexNext(buy), p)
                                 = Append(LevelOrders(SideIndex(buy), p), new)
                           /\ LevelTotal(SideIndexNext(buy), p)
                                 = (LevelTotal(SideIndex(buy), p) + call'[5]) % Modulus
                      ELSE /\ LevelOrders(SideIndexNext(buy), p) = LevelOrders(SideIndex(buy), p)
                           /\ LevelTotal(SideIndexNext(buy), p) = LevelTotal(SideIndex(buy), p)
               /\ \A a \in RestingOrders : mem'[a] = mem[a]
               /\ \A id \in DOMAIN order_lookup \ {call'[2]} :
                      /\ id \in DOMAIN order_lookup'
                      /\ order_lookup'[id] = order_lookup[id]]_vars

\* A buy order was added at or above the best ask and both rest with their
\* quantities: the best bid is not below the best ask.
C19_Witness ==
    /\ call[1] = "add"
    /\ call[3] = TRUE
    /\ call[5] > 0
    /\ asks # <<>>
    /\ bids # <<>>
    /\ bids[1].key = call[4]
    /\ bids[1].key >= asks[1].key
    /\ bids[1].val.total_quantity > 0
    /\ asks[1].val.total_quantity > 0

\* --------------------------------------------------------------------- C20
\* C20: a cancel or amend that returns true for an identity whose order is
\* at price P on side S leaves the other side as it was, leaves every level
\* of S other than P (and, for an amend, the price it names) as it was in
\* list, aggregate and presence, and leaves the entry of every other
\* identity as it was.
C20_OthersUntouched ==
    [][(/\ call'[1] \in {"cancel", "amend"}
        /\ ret' = Returned(TRUE)
        /\ call'[2] \in DOMAIN order_lookup)
        => LET loc == order_lookup[call'[2]]
               touched == IF call'[1] = "amend" THEN {loc.price, call'[3]} ELSE {loc.price}
           IN  /\ SideIndexNext(~loc.is_buy) = SideIndex(~loc.is_buy)
               /\ \A p \in Prices \ touched :
                      /\ LevelOrders(SideIndexNext(loc.is_buy), p)
                            = LevelOrders(SideIndex(loc.is_buy), p)
                      /\ LevelTotal(SideIndexNext(loc.is_buy), p)
                            = LevelTotal(SideIndex(loc.is_buy), p)
                      /\ p \in Keys(SideIndexNext(loc.is_buy)) <=> p \in Keys(SideIndex(loc.is_buy))
               /\ \A id \in DOMAIN order_lookup \ {call'[2]} :
                      /\ id \in DOMAIN order_lookup'
                      /\ order_lookup'[id] = order_lookup[id]]_vars

\* An amend returned true in a book with a second level on the order's side
\* and an order of another identity on the other side.
C20_Witness ==
    /\ call[1] = "amend"
    /\ ret = Returned(TRUE)
    /\ call[2] \in DOMAIN order_lookup
    /\ Len(SideIndex(order_lookup[call[2]].is_buy)) >= 2
    /\ SideIndex(~order_lookup[call[2]].is_buy) # <<>>
    /\ Cardinality(DOMAIN order_lookup) = 2

\* --------------------------------------------------------------------- C21
\* The book an add_order step has just produced.
BookNext ==
    [bids |-> bids', asks |-> asks', order_lookup |-> order_lookup',
     order_pool |-> order_pool', mem |-> mem']

\* C21: after every add_order of an identity that has no entry in
\* order_lookup, a cancel_order of that identity made at once returns true
\* and gives back the book from before the add: both maps (keys, lists,
\* aggregates), order_lookup, the three counts and get_snapshot at every
\* depth. Only the pool differs, by the one record the add consumed.
C21_AddThenCancelRestores ==
    [][(call'[1] = "add" /\ call'[2] \notin DOMAIN order_lookup)
        => LET r == cancel_order(BookNext, call'[2])
           IN  /\ r.ret = TRUE
               /\ r.book.bids = bids
               /\ r.book.asks = asks
               /\ r.book.order_lookup = order_lookup
               /\ get_total_orders(r.book) = get_total_orders(Book)
               /\ get_bid_levels(r.book) = get_bid_levels(Book)
               /\ get_ask_levels(r.book) = get_ask_levels(Book)
               /\ \A depth \in Depths :
                      get_snapshot(r.book, depth, <<>>, <<>>)
                          = get_snapshot(Book, depth, <<>>, <<>>)
               /\ \A a \in RestingOrders : r.book.mem[a] = mem[a]
               /\ r.book.order_pool = order_pool'
               /\ Allocated(order_pool') = Allocated(order_pool) + 1]_vars

\* A cancel returned true and left a book of one resting order while the
\* pool has handed out three records: the order added last was cancelled
\* and the order resting before it is all that remains.
C21_Witness ==
    /\ call[1] = "cancel"
    /\ ret = Returned(TRUE)
    /\ call[2] \notin DOMAIN order_lookup
    /\ Cardinality(DOMAIN order_lookup) = 1
    /\ Cardinality(RestingOrders) = 1
    /\ Allocated(order_pool) = 3
    /\ \A a \in RestingOrders : mem[a].order_id # call[2]

\* --------------------------------------------------------------------- C22
\* The first byte the pool has not handed out.
Frontier(pool) == pool.current_block * BlockSize + pool.offset

\* The calls that reach order_pool.allocate: add_order, and amend_order of an
\* indexed identity to another price.
Allocates ==
    \/ call'[1] = "add"
    \/ /\ call'[1] = "amend"
       /\ call'[2] \in DOMAIN order_lookup
       /\ mem[order_lookup[call'[2]].it].price # call'[3]

\* C22: the pool only moves forward. A call that allocates takes exactly
\* one record, which starts at or after everything handed out before (so
\* it is no earlier record), lies inside one block, and opens a new block
\* exactly when the room left in the current one is less than a record;
\* every other call leaves the pool as it is. So the number of records
\* handed out never decreases and counts the adds ever made.
C22_PoolOnlyGrows ==
    [][IF Allocates
       THEN LET new == order_lookup'[call'[2]].it
                opens == BlockSize - order_pool.offset < SizeofOrder
            IN  /\ Allocated(order_pool') = Allocated(order_pool) + 1
                /\ new >= Frontier(order_pool)
                /\ new \notin RestingOrders
                /\ Frontier(order_pool') = new + SizeofOrder
                /\ new \div BlockSize = (new + SizeofOrder - 1) \div BlockSize
                /\ new \div BlockSize = order_pool'.current_block
                /\ order_pool'.all_blocks
                       = order_pool.all_blocks + IF opens THEN 1 ELSE 0
                /\ order_pool'.current_block
                       = order_pool.current_block + IF opens THEN 1 ELSE 0
       ELSE order_pool' = order_pool]_vars

\* An add has opened the second block and its order is the first record
\* of that block.
C22_Witness ==
    /\ call[1] = "add"
    /\ order_pool.all_blocks = 2
    /\ order_pool.current_block = 1
    /\ order_pool.offset = SizeofOrder
    /\ call[2] \in DOMAIN order_lookup
    /\ order_lookup[call[2]].it = BlockSize

\* --------------------------------------------------------------------- C23
\* Every order in a list of map carries the key of its level as its price
\* and buy as its side.
LevelHoldsItsOrders(map, buy) ==
    \A i \in 1..Len(map) :
        \A a \in Range(map[i].val.orders) :
            /\ mem[a].price = map[i].key
            /\ mem[a].is_buy = buy

\* C23: in every reachable book every order in the list of a level has the
\* level's key as its price and the side of the map as its side, and every
\* entry of order_lookup records the price and side of the order it
\* designates, which carries the entry's identity; so the test of
\* amend_order on the order's price decides as a test on the entry's price
\* would, for every price.
C23_RecordsAgree ==
    /\ LevelHoldsItsOrders(bids, TRUE)
    /\ LevelHoldsItsOrders(asks, FALSE)
    /\ \A id \in DOMAIN order_lookup :
           LET loc == order_lookup[id]
           IN  /\ loc.it \in DOMAIN mem
               /\ mem[loc.it].order_id = id
               /\ mem[loc.it].price = loc.price
               /\ mem[loc.it].is_buy = loc.is_buy
               /\ \A p \in Prices : (mem[loc.it].price # p) <=> (loc.price # p)

\* An amend left its order in a record allocated after the first, at the
\* price the call named, with its entry following it.
C23_Witness ==
    /\ call[1] = "amend"
    /\ ret = Returned(TRUE)
    /\ call[2] \in DOMAIN order_lookup
    /\ order_lookup[call[2]].it = SizeofOrder
    /\ order_lookup[call[2]].price = call[3]
    /\ Allocated(order_pool) = 2
    /\ RestingOrders = {SizeofOrder}

\* --------------------------------------------------------------------- C24
\* Every aggregate of map is the sum of the quantities in its list, reduced
\* to the aggregate's width.
AggregateIsSumModulo(map) ==
    \A i \in 1..Len(map) :
        map[i].val.total_quantity = SumQuantities(map[i].val.orders, mem) % Modulus

\* C24: aggregates are unsigned values of QtyBits bits (64 in the code)
\* that wrap silently. In every reachable book each aggregate is the sum of
\* its list's quantities modulo 2^QtyBits, whether or not the sum fits, and
\* that is the value get_snapshot reports; so a sum past the largest value
\* shows wrapped, and the exact sum shows again once it fits.
C24_AggregateWraps ==
    /\ AggregateIsSumModulo(bids)
    /\ AggregateIsSumModulo(asks)
    /\ LET s == get_snapshot(Book, MaxDepth, <<>>, <<>>)
       IN  /\ \A i \in 1..Len(s.bids_out) :
                  s.bids_out[i].total_quantity
                      = SumQuantities(bids[i].val.orders, mem) % Modulus
           /\ \A i \in 1..Len(s.asks_out) :
                  s.asks_out[i].total_quantity
                      = SumQuantities(asks[i].val.orders, mem) % Modulus

\* An add was accepted that took the sum of its level past the largest
\* value of the aggregate, and the snapshot shows the wrapped aggregate.
C24_Witness ==
    /\ call[1] = "add"
    /\ call[3] = FALSE
    /\ call[5] > 0
    /\ asks # <<>>
    /\ asks[1].key = call[4]
    /\ SumQuantities(asks[1].val.orders, mem) >= Modulus
    /\ asks[1].val.total_quantity = SumQuantities(asks[1].val.orders, mem) - Modulus
    /\ get_snapshot(Book, 1, <<>>, <<>>).asks_out
           = <<PriceLevel(call[4], asks[1].val.total_quantity)>>

====
